---- MODULE Spec2Model ----
(***************************************************************************)
(* Model of fishing-catch-predictor: the incremental merge and the full    *)
(* rebuild of the persisted historical series (data_updater), the feature  *)
(* engine (predictor/features.py) and the predictor with its risk          *)
(* assessor (predictor/inference.py, predictor/predictor.py).              *)
(*                                                                         *)
(* Dates are day ordinals (timedelta(days=1) is +1).  A nullable value is  *)
(* a sequence of length 0 (None / NaN) or 1 (the value).                   *)
(***************************************************************************)
EXTENDS Integers, Sequences, FiniteSets, TLC

VARIABLES
    store,      \* the persisted series data/fishing_data.csv (<<>>: no object)
    source,     \* the daily-record source, per date
    lastRun,    \* what the last handler invocation read, fetched and returned
    runs,       \* two overlapping merge invocations: position and locals
    hist,       \* the frame handed to create_features
    feat,       \* the frame create_features returned (<<>>: not called yet)
    changed,    \* date of the record revised by the last step (0: none)
    predictor,  \* the FishingPredictor's config (<<>>: not constructed)
    prediction, \* what the last predict_tomorrow call returned or raised
    risk,       \* the row handed to _assess_risk and what it returned
    levelPrediction, \* the same for predict_tomorrow of predictor.py
    response    \* what the last prediction or notification handler returned

varsMerge == <<store, source, lastRun, runs>>

varsFeat == <<hist, feat, changed>>

varsPred == <<predictor, prediction, risk, levelPrediction, response>>

vars == <<store, source, lastRun, runs, hist, feat, changed, predictor, prediction,
          risk, levelPrediction, response>>

\* ------------------------------------------------------------------------
\* Bounds of the model

\* Dates of the merge model are 1..MaxDate
MaxDate == 3

\* Totals the source's body table may hold for the species
CatchCounts == {7}

Dates == 1..MaxDate

None == <<>>

Some(x) == <<x>>

\* ------------------------------------------------------------------------
\* Daily-record source (SOURCE_BUCKET): per date, the state of the objects
\* data/<facility>/<date>/head.csv and body.csv

\* "Absent": no object under the date's prefix; "NoBody": head.csv exists,
\* body.csv does not; "EmptyHead": head.csv has no data row; "Malformed": a
\* document that makes pandas or the parsing raise; "Ok": both parse.
DocKinds == {"Absent", "NoBody", "EmptyHead", "Malformed", "Ok"}

SourceDocs ==
    [kind : DocKinds \ {"Ok"}, aji : {0}] \cup [kind : {"Ok"}, aji : CatchCounts]

AbsentDoc == [kind |-> "Absent", aji |-> 0]

\* parse_daily_data of data_updater/main.py: the record of the date, or None
\* on NoSuchKey (head or body), on an empty head table and on any exception
ParseDailyData(src, d) ==
    LET doc == src[d]
    IN  CASE doc.kind = "Absent"    -> None   \* NoSuchKey on head.csv
          [] doc.kind = "EmptyHead" -> None   \* len(head_df) == 0
          [] doc.kind = "NoBody"    -> None   \* NoSuchKey on body.csv
          [] doc.kind = "Malformed" -> None   \* except Exception
          [] OTHER -> Some([date |-> d, aji_count |-> doc.aji])

\* parse_daily_data of data_updater/initial_setup.py: one except clause
\* for every failure, the same record otherwise
ParseDailyDataInitial(src, d) ==
    LET doc == src[d]
    IN  IF doc.kind = "Ok"
        THEN Some([date |-> d, aji_count |-> doc.aji])
        ELSE None

\* ------------------------------------------------------------------------
\* Series: sequences of records, as a DataFrame's rows

DatesOf(df) == {df[i].date : i \in 1..Len(df)}

RecordsOf(df) == {df[i] : i \in 1..Len(df)}

\* df['date'].max()
MaxDateOf(df) == CHOOSE d \in DatesOf(df) : \A e \in DatesOf(df) : e <= d

RECURSIVE InsertByDate(_, _)
InsertByDate(sorted, r) ==
    IF sorted = <<>> THEN <<r>>
    ELSE IF Head(sorted).date <= r.date
         THEN <<Head(sorted)>> \o InsertByDate(Tail(sorted), r)
         ELSE <<r>> \o sorted

\* Mutant: the frame sorted with ascending=False
RECURSIVE SortValuesByDateDescending(_)
SortValuesByDateDescending(df) ==
    IF df = <<>> THEN <<>>
    ELSE LET rest == SortValuesByDateDescending(Tail(df))
             later == SelectSeq(rest, LAMBDA r : r.date > Head(df).date)
             earlier == SelectSeq(rest, LAMBDA r : r.date <= Head(df).date)
         IN  later \o <<Head(df)>> \o earlier

\* df.sort_values('date').reset_index(drop=True)
RECURSIVE SortValuesByDate(_)
SortValuesByDate(df) ==
    IF df = <<>> THEN <<>>
    ELSE InsertByDate(SortValuesByDate(SubSeq(df, 1, Len(df) - 1)), df[Len(df)])

\* ------------------------------------------------------------------------
\* Numbers of the feature engine: a cell is NaN (<<>>) or the fraction
\* <<n, d>> in lowest terms with d > 0; <<1, 0>> and <<-1, 0>> are +inf, -inf

NaN == <<>>

IsNaN(c) == c = NaN

PosInf == <<1, 0>>

NegInf == <<-1, 0>>

IsInf(c) == c = PosInf \/ c = NegInf

Abs(x) == IF x < 0 THEN -x ELSE x

RECURSIVE GCD(_, _)
GCD(a, b) == IF b = 0 THEN a ELSE GCD(b, a % b)

Rat(n, d) ==
    LET g == GCD(Abs(n), Abs(d))
        sgn == IF d < 0 THEN -1 ELSE 1
    IN  <<(sgn * n) \div g, (sgn * d) \div g>>

Num(x) == <<x, 1>>

Add(a, b) ==
    IF IsNaN(a) \/ IsNaN(b) THEN NaN
    ELSE IF IsInf(a) THEN a
    ELSE IF IsInf(b) THEN b
    ELSE LET g == GCD(a[2], b[2])
         IN  Rat(a[1] * (b[2] \div g) + b[1] * (a[2] \div g), (a[2] \div g) * b[2])

Neg(a) == IF IsNaN(a) THEN NaN ELSE <<-a[1], a[2]>>

Sub(a, b) == Add(a, Neg(b))

Mul(a, b) ==
    IF IsNaN(a) \/ IsNaN(b) THEN NaN
    ELSE IF a[2] * b[2] = 0
         THEN (IF a[1] * b[1] = 0 THEN NaN
               ELSE IF a[1] * b[1] > 0 THEN PosInf ELSE NegInf)
         ELSE LET g == GCD(Abs(a[1]), b[2])
                  h == GCD(Abs(b[1]), a[2])
              IN  Rat((a[1] \div g) * (b[1] \div h), (a[2] \div h) * (b[2] \div g))

\* Float division: x/0 is +-inf, 0/0 is NaN
Div(a, b) ==
    IF IsNaN(a) \/ IsNaN(b) THEN NaN
    ELSE IF b[1] = 0
         THEN (IF a[1] = 0 THEN NaN ELSE IF a[1] > 0 THEN PosInf ELSE NegInf)
         ELSE Mul(a, Rat(b[2], b[1]))

\* Comparisons are False when an operand is NaN
Lt(a, b) == ~IsNaN(a) /\ ~IsNaN(b) /\ a[1] * b[2] < b[1] * a[2]

Gt(a, b) == Lt(b, a)

Ge(a, b) == ~IsNaN(a) /\ ~IsNaN(b) /\ a[1] * b[2] >= b[1] * a[2]

Le(a, b) == Ge(b, a)

\* (condition).astype(int)
AsInt(b) == IF b THEN Num(1) ELSE Num(0)

RECURSIVE SumCells(_)
SumCells(v) == IF v = <<>> THEN Num(0) ELSE Add(Head(v), SumCells(Tail(v)))

RECURSIVE MaxCell(_)
MaxCell(v) ==
    IF Len(v) = 1 THEN v[1]
    ELSE LET m == MaxCell(Tail(v)) IN IF Lt(m, Head(v)) THEN Head(v) ELSE m

RECURSIVE MinCell(_)
MinCell(v) ==
    IF Len(v) = 1 THEN v[1]
    ELSE LET m == MinCell(Tail(v)) IN IF Lt(Head(v), m) THEN Head(v) ELSE m

MeanCell(v) == Div(SumCells(v), Num(Len(v)))

\* Sample variance (ddof = 1): the square of the std pandas reports
VarCell(v) ==
    LET n == Len(v)
        sq == [i \in 1..n |-> Mul(v[i], v[i])]
        sm == SumCells(v)
    IN  Div(Sub(SumCells(sq), Div(Mul(sm, sm), Num(n))), Num(n - 1))

\* ------------------------------------------------------------------------
\* Calendar: date ordinal 1 is 2025-04-28 (a Monday), ordinals stay in 2025

DayOfYear(date) == date + 117

CumDays == <<0, 31, 59, 90, 120, 151, 181, 212, 243, 273, 304, 334, 365>>

\* date.dt.month
MonthOf(date) ==
    CHOOSE m \in 1..12 :
        CumDays[m] < DayOfYear(date) /\ DayOfYear(date) <= CumDays[m + 1]

\* date.dt.day
DayOf(date) == DayOfYear(date) - CumDays[MonthOf(date)]

\* date.dt.dayofweek (Monday = 0); 2025-01-01 is a Wednesday
DayOfWeek(date) == (DayOfYear(date) + 1) % 7

\* date.dt.isocalendar().week; ISO week 1 of 2025 starts on 2024-12-30
WeekOfYear(date) == ((DayOfYear(date) + 1) \div 7) + 1

\* ------------------------------------------------------------------------
\* Feature engine (predictor/features.py).  A column is a sequence of cells,
\* one per row of the sorted frame.

Lags == {1, 2, 3, 7, 14, 21, 28}

GradientDays == {1, 3, 7, 14}

Windows == {3, 7, 14, 30}

\* A column with every cell computed
Series(col) == SubSeq(col, 1, Len(col))

\* Mutant: shift(-k), the value of k rows later
ShiftForward(col, k) ==
    [i \in 1..Len(col) |-> IF i + k <= Len(col) THEN col[i + k] ELSE NaN]

\* Series.shift(k)
Shift(col, k) == [i \in 1..Len(col) |-> IF i - k >= 1 THEN col[i - k] ELSE NaN]

\* The non-NaN cells of the window of w rows that ends at row i
WindowValid(col, i, w) ==
    LET lo == IF i - w + 1 >= 1 THEN i - w + 1 ELSE 1
    IN  SelectSeq(SubSeq(col, lo, i), LAMBDA c : ~IsNaN(c))

\* Series.rolling(window=w, min_periods=1).mean()
RollingMean(col, w) ==
    [i \in 1..Len(col) |->
        LET v == WindowValid(col, i, w)
        IN  IF Len(v) < 1 THEN NaN ELSE MeanCell(v)]

\* Series.rolling(window=w, min_periods=2).std(), squared
RollingStd(col, w) ==
    [i \in 1..Len(col) |->
        LET v == WindowValid(col, i, w)
        IN  IF Len(v) < 2 THEN NaN ELSE VarCell(v)]

\* Series.rolling(window=w, min_periods=1).max()
RollingMax(col, w) ==
    [i \in 1..Len(col) |->
        LET v == WindowValid(col, i, w)
        IN  IF Len(v) < 1 THEN NaN ELSE MaxCell(v)]

\* Series.rolling(window=w, min_periods=1).min()
RollingMin(col, w) ==
    [i \in 1..Len(col) |->
        LET v == WindowValid(col, i, w)
        IN  IF Len(v) < 1 THEN NaN ELSE MinCell(v)]

\* df.groupby(key)[col].transform(lambda x: x.shift(1).expanding().mean())
GroupPriorMean(col, key) ==
    [i \in 1..Len(col) |->
        LET idx == SelectSeq([j \in 1..(i - 1) |-> j],
                             LAMBDA j : key[j] = key[i] /\ ~IsNaN(col[j]))
            v == [k \in 1..Len(idx) |-> col[idx[k]]]
        IN  IF Len(v) < 1 THEN NaN ELSE MeanCell(v)]

\* Series.ffill(), the fill pct_change applies before dividing
RECURSIVE FFillAt(_, _)
FFillAt(col, i) ==
    IF i < 1 THEN NaN
    ELSE IF ~IsNaN(col[i]) THEN col[i] ELSE FFillAt(col, i - 1)

\* Series.pct_change(1)
PctChange(col) ==
    [i \in 1..Len(col) |->
        IF i = 1 THEN NaN
        ELSE Sub(Div(FFillAt(col, i), FFillAt(col, i - 1)), Num(1))]

\* The weather_lag1_<value> columns pd.get_dummies creates: one per distinct
\* non-missing value of the column
DummyColumns(weather_lag1) ==
    {weather_lag1[i][1] : i \in {j \in 1..Len(weather_lag1) : weather_lag1[j] # <<>>}}

\* The columns create_features adds to the sorted frame (lines 44-194), one
\* feature row per row.  The lunar and cyclical encodings (functions of the
\* date alone, never missing) and the interaction and ratio products are
\* left out.  The std columns hold the square of the std.
FeatureRows(df) ==
    LET n == Len(df)
        date == [i \in 1..n |-> df[i].date]
        aji_count == [i \in 1..n |-> df[i].aji_count]
        visitors == [i \in 1..n |-> df[i].visitors]
        water_temp == [i \in 1..n |-> df[i].water_temp]
        weather == [i \in 1..n |-> df[i].weather]
        aji_per_person ==
            Series([i \in 1..n |-> Div(aji_count[i], Add(visitors[i], Num(1)))])
        month == [i \in 1..n |-> MonthOf(date[i])]
        dayofweek == [i \in 1..n |-> DayOfWeek(date[i])]
        week_of_year == [i \in 1..n |-> WeekOfYear(date[i])]
        aji_pp_s1 == Series(Shift(aji_per_person, 1))
        aji_s1 == Series(Shift(aji_count, 1))
        visitors_s1 == Series(Shift(visitors, 1))
        temp_s1 == Series(Shift(water_temp, 1))
        temp_gradient(days) ==
            [i \in 1..n |->
                Div(Sub(temp_s1[i], Shift(water_temp, 1 + days)[i]), Num(days))]
        temp_gradient_1d == Series(temp_gradient(1))
        temp_optimal ==
            Series([i \in 1..n |->
                AsInt(Ge(water_temp[i], Num(15)) /\ Le(water_temp[i], Num(23)))])
        aji_pp_pct_change == Series(PctChange(aji_per_person))
        visitors_pct_change == Series(PctChange(visitors))
        aji_pp_lag1 == Shift(aji_per_person, 1)
        aji_pp_lag2 == Shift(aji_per_person, 2)
        weather_lag1 == Shift(weather, 1)
    IN  [i \in 1..n |->
          [date |-> date[i],
           aji_count |-> aji_count[i],
           visitors |-> visitors[i],
           water_temp |-> water_temp[i],
           weather |-> weather[i],
           aji_per_person |-> aji_per_person[i],
           aji_pp_lag |-> [lag \in Lags |-> Shift(aji_per_person, lag)[i]],
           aji_lag |-> [lag \in Lags |-> Shift(aji_count, lag)[i]],
           visitors_lag |-> [lag \in Lags |-> Shift(visitors, lag)[i]],
           temp_lag |-> [lag \in Lags |-> Shift(water_temp, lag)[i]],
           year |-> 2025,
           month |-> month[i],
           day |-> DayOf(date[i]),
           dayofweek |-> dayofweek[i],
           week_of_year |-> week_of_year[i],
           aji_pp_same_week_last_year |-> GroupPriorMean(aji_per_person, week_of_year)[i],
           aji_pp_month_avg |-> GroupPriorMean(aji_per_person, month)[i],
           aji_pp_dayofweek_avg |-> GroupPriorMean(aji_per_person, dayofweek)[i],
           temp_gradient |-> [days \in GradientDays |-> temp_gradient(days)[i]],
           temp_acceleration |-> Sub(temp_gradient_1d[i], Shift(temp_gradient_1d, 1)[i]),
           temp_rising |-> AsInt(Gt(temp_gradient_1d[i], Num(0))),
           temp_falling |-> AsInt(Lt(temp_gradient_1d[i], Num(0))),
           temp_optimal |-> temp_optimal[i],
           temp_optimal_lag1 |-> Shift(temp_optimal, 1)[i],
           aji_pp_ma |-> [w \in Windows |-> RollingMean(aji_pp_s1, w)[i]],
           aji_pp_std |-> [w \in Windows |-> RollingStd(aji_pp_s1, w)[i]],
           aji_pp_max |-> [w \in Windows |-> RollingMax(aji_pp_s1, w)[i]],
           aji_pp_min |-> [w \in Windows |-> RollingMin(aji_pp_s1, w)[i]],
           aji_ma |-> [w \in Windows |-> RollingMean(aji_s1, w)[i]],
           aji_std |-> [w \in Windows |-> RollingStd(aji_s1, w)[i]],
           visitors_ma |-> [w \in Windows |-> RollingMean(visitors_s1, w)[i]],
           visitors_std |-> [w \in Windows |-> RollingStd(visitors_s1, w)[i]],
           temp_ma |-> [w \in Windows |-> RollingMean(temp_s1, w)[i]],
           temp_std |-> [w \in Windows |-> RollingStd(temp_s1, w)[i]],
           aji_pp_change |-> Sub(aji_pp_lag1[i], aji_pp_lag2[i]),
           aji_pp_pct_change |-> Shift(aji_pp_pct_change, 1)[i],
           aji_pp_is_increasing |-> AsInt(Gt(aji_pp_lag1[i], aji_pp_lag2[i])),
           visitors_change |-> Sub(visitors_s1[i], Shift(visitors, 2)[i]),
           visitors_pct_change |-> Shift(visitors_pct_change, 1)[i],
           weather_lag1 |-> weather_lag1[i],
           weather_lag1_dummies |->
               [v \in DummyColumns(weather_lag1) |->
                   IF weather_lag1[i] = <<v>> THEN 1 ELSE 0]]]

\* Mutant: the features computed on the frame as given, without the sort
CreateFeaturesUnsorted(frame) == FeatureRows(frame)

\* create_features: the frame sorted by date (line 43), then the columns
CreateFeatures(frame) == FeatureRows(SortValuesByDate(frame))

\* ------------------------------------------------------------------------
\* Incremental merge (data_updater/main.py)

\* load_existing_fishing_data: the stored rows when the read succeeds, an
\* empty frame on NoSuchKey and on every other exception
LoadExistingFishingData(st, read) ==
    IF read = "ok" THEN st ELSE <<>>

\* Outcomes of get_object on the stored series
ReadOutcomes(st) ==
    IF st = <<>> THEN {"NoSuchKey", "error"} ELSE {"ok", "error"}

\* Mutant: with no existing data the loop starts at the first date there is
FirstDateFromStart(df_existing, target_date) ==
    IF Len(df_existing) > 0 THEN MaxDateOf(df_existing) + 1 ELSE 1

\* Mutant: the loop starts at the last existing date, not the day after it
FirstDateFromLast(df_existing, target_date) ==
    IF Len(df_existing) > 0 THEN MaxDateOf(df_existing) ELSE target_date

\* current_date the fetch loop starts from (lines 173-187)
FirstDate(df_existing, target_date) ==
    IF Len(df_existing) > 0 THEN MaxDateOf(df_existing) + 1 ELSE target_date

\* Mutant: the first date that fails to parse ends the loop
RECURSIVE FetchLoopAbortOnFailure(_, _, _)
FetchLoopAbortOnFailure(src, current_date, target_date) ==
    IF current_date > target_date
    THEN [attempted |-> <<>>, new_data |-> <<>>]
    ELSE LET data_entry == ParseDailyData(src, current_date)
             rest == IF data_entry = None
                     THEN [attempted |-> <<>>, new_data |-> <<>>]
                     ELSE FetchLoopAbortOnFailure(src, current_date + 1, target_date)
         IN  [attempted |-> <<current_date>> \o rest.attempted,
              new_data  |-> data_entry \o rest.new_data]

\* One pass of the while loop (lines 191-200) from current_date on:
\* the dates handed to parse_daily_data and the entries collected
RECURSIVE FetchLoop(_, _, _)
FetchLoop(src, current_date, target_date) ==
    IF current_date > target_date
    THEN [attempted |-> <<>>, new_data |-> <<>>]
    ELSE LET data_entry == ParseDailyData(src, current_date)
             rest == FetchLoop(src, current_date + 1, target_date)
         IN  [attempted |-> <<current_date>> \o rest.attempted,
              new_data  |-> data_entry \o rest.new_data]

\* update_fishing_data after the load: (df_updated, len(new_data)), and the
\* dates it fetched
UpdateFishingData(src, df_existing, target_date) ==
    IF Len(df_existing) > 0 /\ target_date <= MaxDateOf(df_existing)
    THEN [df_updated |-> df_existing, rows_added |-> 0, attempted |-> <<>>]
    ELSE LET f == FetchLoop(src, FirstDate(df_existing, target_date), target_date)
         IN  [df_updated |-> IF Len(f.new_data) > 0
                             THEN SortValuesByDate(df_existing \o f.new_data)
                             ELSE df_existing,
              rows_added |-> Len(f.new_data),
              attempted  |-> f.attempted]

\* What lambda_handler leaves in the store (lines 283-285)
SaveFishingData(st, df_updated, rows_added) ==
    IF rows_added > 0 THEN df_updated ELSE st

NoRun ==
    [handler |-> "none", target_date |-> 0, read |-> "none",
     df_existing |-> <<>>, df_updated |-> <<>>, rows_added |-> 0,
     attempted |-> <<>>, store_before |-> <<>>, statusCode |-> 0,
     repeat |-> FALSE]

\* An invocation that has not started
NotStarted ==
    [pc |-> "start", target_date |-> 0, read |-> "none", df_existing |-> <<>>,
     df_updated |-> <<>>, rows_added |-> 0, attempted |-> <<>>,
     persisted |-> FALSE]

\* The two overlapping invocations
Invocations == {1, 2}

NoRuns == [i \in Invocations |-> NotStarted]

\* This invocation repeats the previous one: same target date, run on the
\* series the previous one returned, the source unchanged in between
IsRepeat(prev, target_date, df_existing) ==
    /\ prev.handler = "merge"
    /\ prev.target_date = target_date
    /\ prev.df_updated = df_existing

\* lambda_handler of data_updater/main.py, one whole invocation with the
\* resolved target date (event['target_date'], or the day before now) and
\* the outcome of reading the stored series
MergeHandler(target_date, read) ==
    /\ read \in ReadOutcomes(store)
    /\ LET df_existing == LoadExistingFishingData(store, read)
           u == UpdateFishingData(source, df_existing, target_date)
       IN  /\ store' = SaveFishingData(store, u.df_updated, u.rows_added)
           /\ lastRun' = [handler |-> "merge", target_date |-> target_date,
                          read |-> read, df_existing |-> df_existing,
                          df_updated |-> u.df_updated,
                          rows_added |-> u.rows_added,
                          attempted |-> u.attempted,
                          store_before |-> store, statusCode |-> 200,
                          repeat |-> IsRepeat(lastRun, target_date, df_existing)]
    /\ UNCHANGED source
    /\ UNCHANGED runs
    /\ UNCHANGED varsFeat
    /\ UNCHANGED varsPred

\* ------------------------------------------------------------------------
\* Full rebuild (data_updater/initial_setup.py)

\* list_all_date_folders: the sorted date folders under the facility prefix
RECURSIVE SortedDates(_)
SortedDates(S) ==
    IF S = {} THEN <<>>
    ELSE LET m == CHOOSE d \in S : \A e \in S : d <= e
         IN  <<m>> \o SortedDates(S \ {m})

ListAllDateFolders(src) ==
    SortedDates({d \in DOMAIN src : src[d].kind # "Absent"})

RECURSIVE CollectAll(_, _)
CollectAll(src, date_folders) ==
    IF date_folders = <<>> THEN <<>>
    ELSE ParseDailyDataInitial(src, Head(date_folders))
            \o CollectAll(src, Tail(date_folders))

\* create_initial_fishing_data: the rebuilt frame; "raises" when there is no
\* date folder (RuntimeError) or no parsed record (sort_values on a frame
\* without a date column)
CreateInitialFishingData(src) ==
    LET date_folders == ListAllDateFolders(src)
        all_data == CollectAll(src, date_folders)
    IN  IF Len(date_folders) = 0 \/ Len(all_data) = 0
        THEN [raised |-> TRUE, df |-> <<>>]
        ELSE [raised |-> FALSE, df |-> SortValuesByDate(all_data)]

\* lambda_handler of initial_setup.py: the store is replaced wholesale
RebuildHandler ==
    LET c == CreateInitialFishingData(source)
    IN  /\ store' = IF c.raised THEN store ELSE c.df
        /\ lastRun' = [NoRun EXCEPT !.handler = "rebuild",
                                    !.df_updated = c.df,
                                    !.store_before = store,
                                    !.statusCode = IF c.raised THEN 500 ELSE 200]
        /\ UNCHANGED source
        /\ UNCHANGED runs
        /\ UNCHANGED varsFeat
        /\ UNCHANGED varsPred

\* ------------------------------------------------------------------------
\* Environment: the scraper writes, replaces or removes a date's documents

SourceChange(d, doc) ==
    /\ source[d] # doc
    /\ source' = [source EXCEPT ![d] = doc]
    /\ lastRun' = NoRun
    /\ UNCHANGED store
    /\ UNCHANGED runs
    /\ UNCHANGED varsFeat
    /\ UNCHANGED varsPred

Init ==
    /\ store = <<>>
    /\ source = [d \in Dates |-> AbsentDoc]
    /\ lastRun = NoRun
    /\ runs = NoRuns
    /\ hist = <<>>
    /\ feat = <<>>
    /\ changed = 0
    /\ predictor = <<>>
    /\ prediction = <<>>
    /\ risk = <<>>
    /\ levelPrediction = <<>>
    /\ response = <<>>

Next ==
    \/ \E d \in Dates, read \in {"ok", "NoSuchKey", "error"} : MergeHandler(d, read)
    \/ RebuildHandler
    \/ \E d \in Dates, doc \in SourceDocs : SourceChange(d, doc)

Spec == Init /\ [][Next]_vars

\* ------------------------------------------------------------------------
\* Claims about the merge and the rebuild, checked under Spec

IsMergeRun == lastRun.handler = "merge"

\* The dates first..last in order
RECURSIVE DateRange(_, _)
DateRange(first, last) ==
    IF first > last THEN <<>> ELSE <<first>> \o DateRange(first + 1, last)

\* C1: every record persisted before a merge invocation is still persisted
\* after it, also when the read of the stored series failed with an error
\* other than not-found
C1_NeverTruncated ==
    IsMergeRun => RecordsOf(lastRun.store_before) \subseteq RecordsOf(store)

C3_UniqueAscending ==
    \A i, j \in 1..Len(store) : i < j => store[i].date < store[j].date

\* C3 witness: a merge appended to a non-empty series
C3_Witness ==
    /\ IsMergeRun
    /\ Len(lastRun.df_existing) > 0
    /\ lastRun.rows_added > 0
    /\ store = lastRun.df_updated

\* The merge run went through the fetch loop
Fetched ==
    /\ IsMergeRun
    /\ ~ (/\ Len(lastRun.df_existing) > 0
          /\ lastRun.target_date <= MaxDateOf(lastRun.df_existing))

\* C4: a date that fails to fetch or parse is skipped and nothing else:
\* every date from the first missing one to the target is attempted, the
\* dates appended are those the source parses, and the count returned is the
\* number of rows the series grew by
C4_SkipOnlyFailedDate ==
    Fetched =>
        LET first == FirstDate(lastRun.df_existing, lastRun.target_date)
            range == DateRange(first, lastRun.target_date)
            parsed == {d \in {range[i] : i \in 1..Len(range)} : source[d].kind = "Ok"}
        IN  /\ lastRun.attempted = range
            /\ DatesOf(lastRun.df_updated) = DatesOf(lastRun.df_existing) \cup parsed
            /\ lastRun.rows_added = Cardinality(parsed)
            /\ Len(lastRun.df_updated) = Len(lastRun.df_existing) + lastRun.rows_added

\* C4 witness: a run in which one date failed and a later one was appended
C4_Witness ==
    /\ Fetched
    /\ \E i, j \in 1..Len(lastRun.attempted) :
          /\ i < j
          /\ source[lastRun.attempted[i]].kind \in {"Absent", "NoBody", "EmptyHead", "Malformed"}
          /\ source[lastRun.attempted[j]].kind = "Ok"
    /\ lastRun.rows_added > 0

\* C16: a merge into an empty series with target date T fetches the single
\* date T: one record, dated T, is appended if the source has parseable
\* data for T, none if the source reports the document missing, and no
\* other date is fetched or appended
C16_EmptySeriesFetchesTargetOnly ==
    (IsMergeRun /\ lastRun.df_existing = <<>>) =>
        LET T == lastRun.target_date
        IN  /\ lastRun.attempted = <<T>>
            /\ DatesOf(lastRun.df_updated) \subseteq {T}
            /\ Len(lastRun.df_updated) = lastRun.rows_added
            /\ source[T].kind = "Ok" =>
                  /\ lastRun.rows_added = 1
                  /\ DatesOf(lastRun.df_updated) = {T}
            /\ source[T].kind = "Absent" => lastRun.rows_added = 0

\* C16 witness: the store was empty, the source has parseable data for an
\* earlier date and for T, and the merge appended the record of T
C16_Witness ==
    /\ IsMergeRun
    /\ lastRun.read = "NoSuchKey"
    /\ lastRun.df_existing = <<>>
    /\ lastRun.target_date > 1
    /\ source[1].kind = "Ok"
    /\ source[lastRun.target_date].kind = "Ok"
    /\ lastRun.rows_added = 1

\* The dates missing from a series although it holds a later date
Holes(df) ==
    {d \in Dates : d \notin DatesOf(df) /\ \E e \in DatesOf(df) : e > d}

\* The dates of a sequence of dates
DatesIn(seq) == {seq[i] : i \in 1..Len(seq)}

\* The merge fetched the dates after the last date of the series it read,
\* up to the target, each once and in order, and added records only there
FetchesOnlyAfterLast ==
    (IsMergeRun /\ lastRun.df_existing # <<>>) =>
        LET last == MaxDateOf(lastRun.df_existing)
        IN  /\ lastRun.attempted = DateRange(last + 1, lastRun.target_date)
            /\ RecordsOf(lastRun.df_existing) \subseteq
                   RecordsOf(lastRun.df_updated)
            /\ \A r \in RecordsOf(lastRun.df_updated)
                          \ RecordsOf(lastRun.df_existing) : r.date > last

\* The merge neither fetched nor filled a date that was missing from the
\* persisted series while a later date was already there
HolesStayHoles ==
    IsMergeRun =>
        \A d \in Holes(lastRun.store_before) :
            /\ d \notin DatesIn(lastRun.attempted)
            /\ d \notin DatesOf(store)

\* C23: a merge fetches only the dates after the maximum date of the series
\* it read, each date up to the target once, and adds no record dated at or
\* before that maximum; and once a date is missing from the persisted series
\* while a later date has been appended, no merge invocation fetches or
\* fills it, even if the source has data for it by then
C23_SkippedDatesNeverFilled ==
    /\ FetchesOnlyAfterLast
    /\ HolesStayHoles

\* ------------------------------------------------------------------------
\* The feature engine as a function of its input: SpecFeat draws the input
\* frame, calls create_features, and calls it again after one record of the
\* input was revised

\* Dates of the short input frames are 1..MaxFeatDate
MaxFeatDate == 3

\* Length of the long input frames of consecutive days
LongLen == 30

RawProfiles ==
    {[aji_count |-> Num(0), visitors |-> Num(0), water_temp |-> Num(14),
      weather |-> <<"Rain">>],
     [aji_count |-> Num(80), visitors |-> Num(30), water_temp |-> Num(16),
      weather |-> <<"Sunny">>],
     [aji_count |-> Num(600), visitors |-> NaN, water_temp |-> NaN,
      weather |-> <<>>]}

BaseProfile ==
    [aji_count |-> Num(80), visitors |-> Num(30), water_temp |-> Num(16),
     weather |-> <<"Sunny">>]

OtherProfile ==
    [aji_count |-> Num(0), visitors |-> Num(0), water_temp |-> Num(14),
     weather |-> <<"Rain">>]

\* A row of the input frame
Raw(date, p) ==
    [date |-> date, aji_count |-> p.aji_count, visitors |-> p.visitors,
     water_temp |-> p.water_temp, weather |-> p.weather]

RawOf(row) ==
    [date |-> row.date, aji_count |-> row.aji_count, visitors |-> row.visitors,
     water_temp |-> row.water_temp, weather |-> row.weather]

\* Non-empty frames with one row per date, dates in any order, gaps allowed
ShortFrames ==
    UNION {{h \in [1..k -> {Raw(d, p) : d \in 1..MaxFeatDate, p \in RawProfiles}] :
               \A i, j \in 1..k : i # j => h[i].date # h[j].date} :
           k \in 1..MaxFeatDate}

\* Rows of the frame that differ from the base profile
Deviations(h) == {i \in 1..Len(h) : h[i] # Raw(h[i].date, BaseProfile)}

\* Rows of a long frame that may be off the base profile
LongRevisable == {1, LongLen - 7, LongLen - 1, LongLen}

\* LongLen consecutive days in date order, at most one row off the base
\* profile
LongFrames ==
    {[d \in 1..LongLen |-> Raw(d, IF d = k THEN OtherProfile ELSE BaseProfile)] :
        k \in {0} \cup LongRevisable}

IsLong(h) == Len(h) > MaxFeatDate

InitFeat ==
    /\ hist \in ShortFrames \cup LongFrames
    /\ feat = <<>>
    /\ changed = 0
    /\ predictor = <<>>
    /\ prediction = <<>>
    /\ risk = <<>>
    /\ levelPrediction = <<>>
    /\ response = <<>>
    /\ store = <<>>
    /\ source = [d \in Dates |-> AbsentDoc]
    /\ lastRun = NoRun
    /\ runs = NoRuns

\* create_features(hist)
CallCreateFeatures ==
    /\ feat = <<>>
    /\ feat' = CreateFeatures(hist)
    /\ changed' = 0
    /\ UNCHANGED hist
    /\ UNCHANGED varsMerge
    /\ UNCHANGED varsPred

\* The raw values of row j are revised, once, and create_features is called
\* on the revised frame
ReviseAndCreateFeatures(j, p) ==
    /\ feat # <<>>
    /\ changed = 0
    /\ hist[j] # Raw(hist[j].date, p)
    /\ LET revised == [hist EXCEPT ![j] = Raw(hist[j].date, p)]
       IN  /\ IsLong(hist) =>
                 /\ j \in LongRevisable
                 /\ p \in {BaseProfile, OtherProfile}
                 /\ Cardinality(Deviations(revised)) <= 1
           /\ hist' = revised
           /\ feat' = CreateFeatures(revised)
    /\ changed' = hist[j].date
    /\ UNCHANGED varsMerge
    /\ UNCHANGED varsPred

NextFeat ==
    \/ CallCreateFeatures
    \/ \E j \in 1..Len(hist), p \in RawProfiles : ReviseAndCreateFeatures(j, p)

SpecFeat == InitFeat /\ [][NextFeat]_vars

\* ------------------------------------------------------------------------
\* Claims about the feature engine, checked under SpecFeat

\* The lag, rolling-statistic and temperature-gradient columns of a row
LagRollingGradient(row) ==
    <<row.aji_pp_lag, row.aji_lag, row.visitors_lag, row.temp_lag,
      row.temp_gradient, row.temp_acceleration,
      row.aji_pp_ma, row.aji_pp_std, row.aji_pp_max, row.aji_pp_min,
      row.aji_ma, row.aji_std, row.visitors_ma, row.visitors_std,
      row.temp_ma, row.temp_std>>

\* Every column create_features adds other than the calendar fields; the
\* input columns and the catch-per-visitor target are left out as well
NonCalendarFeatures(row) ==
    <<LagRollingGradient(row),
      row.aji_pp_same_week_last_year, row.aji_pp_month_avg,
      row.aji_pp_dayofweek_avg,
      row.temp_rising, row.temp_falling, row.temp_optimal,
      row.temp_optimal_lag1,
      row.aji_pp_change, row.aji_pp_pct_change, row.aji_pp_is_increasing,
      row.visitors_change, row.visitors_pct_change,
      row.weather_lag1, row.weather_lag1_dummies>>

\* Frame h2 is frame h1 with the raw values of rows dated later than d
\* changed, if any
RevisedAfter(h1, h2, d) ==
    /\ Len(h2) = Len(h1)
    /\ \A k \in 1..Len(h1) :
          /\ h2[k].date = h1[k].date
          /\ h1[k].date <= d => h2[k] = h1[k]

\* Frame h2 is frame h1 with the raw values of rows dated d or later changed
RevisedFrom(h1, h2, d) ==
    /\ Len(h2) = Len(h1)
    /\ \A k \in 1..Len(h1) :
          /\ h2[k].date = h1[k].date
          /\ h1[k].date < d => h2[k] = h1[k]

\* C5: changing the raw values of rows dated later than row i leaves every
\* lag, rolling-statistic and temperature-gradient feature of row i unchanged
C5_AntiLeakage ==
    [][\A i \in 1..Len(feat) :
          (Len(feat') = Len(feat) /\ RevisedAfter(hist, hist', feat[i].date))
              => LagRollingGradient(feat'[i]) = LagRollingGradient(feat[i])]_vars

\* C5 witness: a later record was revised while an earlier row carries lag
\* and rolling features down to the longest horizon and window
C5_Witness ==
    /\ changed # 0
    /\ \E i \in 1..Len(feat) :
          /\ feat[i].date < changed
          /\ \A lag \in Lags : ~IsNaN(feat[i].aji_pp_lag[lag])
          /\ \A w \in Windows : ~IsNaN(feat[i].aji_std[w])
          /\ ~IsNaN(feat[i].temp_gradient[14])

\* C6: the raw values of the row itself and of later rows influence no
\* non-calendar column of the row, neither its value nor its existence
C6_OnlyStrictlyPriorData ==
    [][\A i \in 1..Len(feat) :
          (Len(feat') = Len(feat) /\ RevisedFrom(hist, hist', feat[i].date))
              => NonCalendarFeatures(feat'[i]) = NonCalendarFeatures(feat[i])]_vars

\* The record of the frame dated d, if any
RecordDated(h, d) ==
    IF \E k \in 1..Len(h) : h[k].date = d
    THEN <<h[CHOOSE k \in 1..Len(h) : h[k].date = d]>>
    ELSE <<>>

\* C7: the lag-N features of the row dated d are the values of the record
\* dated d - N, and are missing when there is no such record
C7_LagIsCalendarDays ==
    \A i \in 1..Len(feat) : \A lag \in Lags :
        LET rec == RecordDated(hist, feat[i].date - lag)
        IN  IF rec = <<>>
            THEN /\ IsNaN(feat[i].aji_pp_lag[lag])
                 /\ IsNaN(feat[i].aji_lag[lag])
                 /\ IsNaN(feat[i].visitors_lag[lag])
                 /\ IsNaN(feat[i].temp_lag[lag])
            ELSE /\ feat[i].aji_pp_lag[lag] =
                        Div(rec[1].aji_count, Add(rec[1].visitors, Num(1)))
                 /\ feat[i].aji_lag[lag] = rec[1].aji_count
                 /\ feat[i].visitors_lag[lag] = rec[1].visitors
                 /\ feat[i].temp_lag[lag] = rec[1].water_temp

IsAscending(h) == \A i, j \in 1..Len(h) : i < j => h[i].date < h[j].date

\* C8 as claimed: one output row per input row, in the date order of the
\* input, whatever the input order
C8_SameOrderAsInput ==
    feat # <<>> =>
        /\ Len(feat) = Len(hist)
        /\ \A i \in 1..Len(hist) : RawOf(feat[i]) = hist[i]

\* C8 amended: one output row per input row, none dropped or duplicated, in
\* ascending date order; the order of the input when the input is ascending
C8_SameRowsAscending ==
    feat # <<>> =>
        /\ Len(feat) = Len(hist)
        /\ IsAscending(feat)
        /\ \A k \in 1..Len(hist) :
              Cardinality({i \in 1..Len(feat) : RawOf(feat[i]) = hist[k]}) = 1
        /\ IsAscending(hist) => \A i \in 1..Len(hist) : RawOf(feat[i]) = hist[i]

\* C8 witness: features of a frame whose rows are not in date order
C8_Witness ==
    /\ feat # <<>>
    /\ Len(hist) >= 3
    /\ ~IsAscending(hist)

\* The columns of row i, other than the three flags, are missing where the
\* rows they read, counted back from i in date order, do not exist
LookbackColumnsMissing(i) ==
    LET row == feat[i]
    IN  /\ \A lag \in Lags : i <= lag =>
              /\ IsNaN(row.aji_pp_lag[lag]) /\ IsNaN(row.aji_lag[lag])
              /\ IsNaN(row.visitors_lag[lag]) /\ IsNaN(row.temp_lag[lag])
        /\ \A days \in GradientDays : i <= 1 + days =>
              IsNaN(row.temp_gradient[days])
        /\ i <= 3 => IsNaN(row.temp_acceleration)
        /\ i <= 2 =>
              /\ IsNaN(row.aji_pp_change) /\ IsNaN(row.aji_pp_pct_change)
              /\ IsNaN(row.visitors_change) /\ IsNaN(row.visitors_pct_change)
              /\ \A w \in Windows :
                    /\ IsNaN(row.aji_pp_std[w]) /\ IsNaN(row.aji_std[w])
                    /\ IsNaN(row.visitors_std[w]) /\ IsNaN(row.temp_std[w])
        /\ i = 1 =>
              /\ IsNaN(row.temp_optimal_lag1)
              /\ row.weather_lag1 = <<>>
              /\ IsNaN(row.aji_pp_same_week_last_year)
              /\ IsNaN(row.aji_pp_month_avg)
              /\ IsNaN(row.aji_pp_dayofweek_avg)
              /\ \A w \in Windows :
                    /\ IsNaN(row.aji_pp_ma[w]) /\ IsNaN(row.aji_pp_max[w])
                    /\ IsNaN(row.aji_pp_min[w]) /\ IsNaN(row.aji_ma[w])
                    /\ IsNaN(row.visitors_ma[w]) /\ IsNaN(row.temp_ma[w])

\* C19: in every row, every derived column whose lookback records do not
\* exist is missing, the flags temp_rising, temp_falling and
\* aji_pp_is_increasing of the first two rows included
C19_MissingWhenNoLookback ==
    \A i \in 1..Len(feat) :
        /\ LookbackColumnsMissing(i)
        /\ i <= 2 =>
              /\ IsNaN(feat[i].temp_rising)
              /\ IsNaN(feat[i].temp_falling)
              /\ IsNaN(feat[i].aji_pp_is_increasing)

\* ------------------------------------------------------------------------
\* Risk assessor (predictor/inference.py and predictor/predictor.py)

\* X_full is one feature row: a function from the names of its columns to
\* their cells.  aji_std7 holds the square of the std, as in FeatureRows.
RiskColumnNames == {"aji_pp_lag1", "aji_std7", "month"}

\* X_full[name].values[0] if name in X_full.columns else np.nan
Column(X_full, name) == IF name \in DOMAIN X_full THEN X_full[name] ELSE NaN

\* month in [5, 6, 7, 8, 9]
IsRiskMonth(month) == \E m \in 5..9 : month = Num(m)

\* Mutant: a good previous day raises the level, a poor one does not
AssessRiskFlipped(X_full) ==
    LET aji_pp_lag1 == Column(X_full, "aji_pp_lag1")
        aji_std7 == Column(X_full, "aji_std7")
        month == Column(X_full, "month")
        low == IF ~IsNaN(aji_pp_lag1) /\ Ge(aji_pp_lag1, Num(2)) THEN 1 ELSE 0
        volatile == IF ~IsNaN(aji_std7) /\ Gt(aji_std7, Num(400 * 400))
                    THEN 1 ELSE 0
        season == IF ~IsNaN(month) /\ IsRiskMonth(month) THEN 1 ELSE 0
    IN  low + volatile + season

\* _assess_risk of predictor.py: the level alone
AssessRiskLevel(X_full) ==
    LET aji_pp_lag1 == Column(X_full, "aji_pp_lag1")
        aji_std7 == Column(X_full, "aji_std7")
        month == Column(X_full, "month")
        low == IF ~IsNaN(aji_pp_lag1) /\ Lt(aji_pp_lag1, Num(2)) THEN 1 ELSE 0
        volatile == IF ~IsNaN(aji_std7) /\ Gt(aji_std7, Num(400 * 400))
                    THEN 1 ELSE 0
        season == IF ~IsNaN(month) /\ IsRiskMonth(month) THEN 1 ELSE 0
    IN  low + volatile + season

\* Mutant: the season rule is evaluated first
AssessRiskSeasonFirst(X_full) ==
    LET aji_pp_lag1 == Column(X_full, "aji_pp_lag1")
        aji_std7 == Column(X_full, "aji_std7")
        month == Column(X_full, "month")
        r1 == IF ~IsNaN(month) /\ IsRiskMonth(month)
              THEN [level |-> 1, reasons |-> <<"risk month">>]
              ELSE [level |-> 0, reasons |-> <<>>]
        r2 == IF IsNaN(aji_pp_lag1) THEN r1
              ELSE IF Lt(aji_pp_lag1, Num(2))
                   THEN [level |-> r1.level + 1,
                         reasons |-> Append(r1.reasons, "low previous day")]
                   ELSE [level |-> r1.level,
                         reasons |-> Append(r1.reasons, "good previous day")]
        r3 == IF IsNaN(aji_std7) THEN r2
              ELSE IF Gt(aji_std7, Num(400 * 400))
                   THEN [level |-> r2.level + 1,
                         reasons |-> Append(r2.reasons, "volatile")]
                   ELSE [level |-> r2.level,
                         reasons |-> Append(r2.reasons, "stable")]
    IN  [risk_level |-> r3.level, risk_reasons |-> r3.reasons]

\* _assess_risk of inference.py: the level and the reasons, in the order
\* they are appended
AssessRisk(X_full) ==
    LET aji_pp_lag1 == Column(X_full, "aji_pp_lag1")
        aji_std7 == Column(X_full, "aji_std7")
        month == Column(X_full, "month")
        r1 == IF IsNaN(aji_pp_lag1) THEN [level |-> 0, reasons |-> <<>>]
              ELSE IF Lt(aji_pp_lag1, Num(2))
                   THEN [level |-> 1, reasons |-> <<"low previous day">>]
                   ELSE [level |-> 0, reasons |-> <<"good previous day">>]
        r2 == IF IsNaN(aji_std7) THEN r1
              ELSE IF Gt(aji_std7, Num(400 * 400))
                   THEN [level |-> r1.level + 1,
                         reasons |-> Append(r1.reasons, "volatile")]
                   ELSE [level |-> r1.level,
                         reasons |-> Append(r1.reasons, "stable")]
        r3 == IF ~IsNaN(month) /\ IsRiskMonth(month)
              THEN [level |-> r2.level + 1,
                    reasons |-> Append(r2.reasons, "risk month")]
              ELSE r2
    IN  [risk_level |-> r3.level, risk_reasons |-> r3.reasons]

\* _get_confidence_display
GetConfidenceDisplay(risk_level) ==
    IF risk_level <= 1 THEN "high"
    ELSE IF risk_level = 2 THEN "medium" ELSE "low"

\* What both assessors return for a row
Assessed(X_full) ==
    [risk_level |-> AssessRiskLevel(X_full),
     inference |-> AssessRisk(X_full)]

\* ------------------------------------------------------------------------
\* The risk assessor as a function of its input: SpecRisk draws a feature
\* row, assesses it, and assesses it again after one input moved from its
\* favorable to its unfavorable side

\* Cells the three inputs are drawn from, the missing cell included
RiskCells(name) ==
    CASE name = "aji_pp_lag1" ->
            {NaN, Num(0), Rat(199, 100), Num(2), Rat(201, 100), PosInf}
      [] name = "aji_std7" ->
            {NaN, Num(0), Num(400 * 400 - 1), Num(400 * 400),
             Num(400 * 400 + 1), PosInf}
      [] name = "month" -> {NaN} \cup {Num(m) : m \in 1..12}

\* Rows with any of the three columns absent
RiskRows ==
    UNION {{row \in [cols -> UNION {RiskCells(n) : n \in RiskColumnNames}] :
               \A n \in cols : row[n] \in RiskCells(n)} :
           cols \in SUBSET RiskColumnNames}

Favorable(name, cell) ==
    CASE name = "aji_pp_lag1" -> Ge(cell, Num(2))
      [] name = "aji_std7" -> Le(cell, Num(400 * 400))
      [] name = "month" -> ~IsNaN(cell) /\ ~IsRiskMonth(cell)

Unfavorable(name, cell) ==
    CASE name = "aji_pp_lag1" -> Lt(cell, Num(2))
      [] name = "aji_std7" -> Gt(cell, Num(400 * 400))
      [] name = "month" -> IsRiskMonth(cell)

InitRisk ==
    /\ risk \in {[X_full |-> row, assessed |-> FALSE, moved |-> "",
                  before |-> Assessed(row), after |-> Assessed(row)] :
                 row \in RiskRows}
    /\ predictor = <<>>
    /\ prediction = <<>>
    /\ levelPrediction = <<>>
    /\ response = <<>>
    /\ hist = <<>>
    /\ feat = <<>>
    /\ changed = 0
    /\ store = <<>>
    /\ source = [d \in Dates |-> AbsentDoc]
    /\ lastRun = NoRun
    /\ runs = NoRuns

\* _assess_risk(X_full), both implementations
CallAssessRisk ==
    /\ ~risk.assessed
    /\ risk' = [risk EXCEPT !.assessed = TRUE, !.after = Assessed(risk.X_full)]
    /\ UNCHANGED <<predictor, prediction, levelPrediction, response>>
    /\ UNCHANGED varsMerge
    /\ UNCHANGED varsFeat

\* One input moves from favorable to unfavorable, the other two are held,
\* and the row is assessed again
MoveAndAssessRisk(name, cell) ==
    /\ risk.assessed
    /\ name \in DOMAIN risk.X_full
    /\ Favorable(name, risk.X_full[name])
    /\ Unfavorable(name, cell)
    /\ LET row == [risk.X_full EXCEPT ![name] = cell]
       IN  risk' = [X_full |-> row, assessed |-> TRUE, moved |-> name,
                    before |-> risk.after, after |-> Assessed(row)]
    /\ UNCHANGED <<predictor, prediction, levelPrediction, response>>
    /\ UNCHANGED varsMerge
    /\ UNCHANGED varsFeat

NextRisk ==
    \/ CallAssessRisk
    \/ \E name \in RiskColumnNames :
          \E cell \in RiskCells(name) : MoveAndAssessRisk(name, cell)

SpecRisk == InitRisk /\ [][NextRisk]_vars

\* ------------------------------------------------------------------------
\* Claims about the risk assessor, checked under SpecRisk

\* C10: the risk level of both assessors is in {0,1,2,3} for every feature
\* row, rows with missing inputs included, and does not decrease when one
\* input moves from favorable to unfavorable with the other two held fixed
C10_RiskRangeMonotone ==
    (risk # <<>> /\ risk.assessed) =>
        /\ risk.after.risk_level \in 0..3
        /\ risk.after.inference.risk_level \in 0..3
        /\ risk.moved # "" =>
              /\ risk.after.risk_level >= risk.before.risk_level
              /\ risk.after.inference.risk_level >=
                     risk.before.inference.risk_level

\* C10 witness: with the volatility input missing, the month moved into the
\* risk season and the level went up by one
C10_Witness ==
    /\ risk # <<>>
    /\ risk.assessed
    /\ risk.moved = "month"
    /\ IsNaN(Column(risk.X_full, "aji_std7"))
    /\ risk.after.risk_level = risk.before.risk_level + 1
    /\ risk.after.inference.risk_level = 2

\* The tag a rule emits for its input: none when the input is missing
RuleTag(X_full, name, unfavorable, favorable) ==
    LET cell == Column(X_full, name)
    IN  IF IsNaN(cell) THEN <<>>
        ELSE IF Unfavorable(name, cell) THEN <<unfavorable>> ELSE favorable

\* C18: the three rules are evaluated independently in the order prior day,
\* volatility, season: risk_reasons lists the emitted tags in that order,
\* the level is the number of unfavorable tags, favorable tags add no risk,
\* and a rule whose input is missing gives neither risk nor tag
C18_RulesInFixedOrder ==
    (risk # <<>> /\ risk.assessed) =>
        LET got == risk.after.inference
            tags == RuleTag(risk.X_full, "aji_pp_lag1", "low previous day",
                            <<"good previous day">>)
                    \o RuleTag(risk.X_full, "aji_std7", "volatile",
                               <<"stable">>)
                    \o RuleTag(risk.X_full, "month", "risk month", <<>>)
        IN  /\ got.risk_reasons = tags
            /\ got.risk_level =
                   Cardinality({i \in 1..Len(tags) :
                       tags[i] \in {"low previous day", "volatile",
                                    "risk month"}})

\* C18 witness: the prior-day input is missing, the catch is volatile and
\* the month is in the risk season
C18_Witness ==
    /\ risk # <<>>
    /\ risk.assessed
    /\ "aji_pp_lag1" \notin DOMAIN risk.X_full
    /\ risk.after.inference.risk_reasons = <<"volatile", "risk month">>
    /\ risk.after.inference.risk_level = 2

\* ------------------------------------------------------------------------
\* Predictor (predictor/inference.py)

\* A cell that replace([inf, -inf], nan).dropna() keeps
IsFinite(c) == ~IsNaN(c) /\ ~IsInf(c)

\* Mutant: the lag columns are not looked at
IsCleanRowLagsIgnored(row) ==
    /\ row.weather # <<>>
    /\ row.weather_lag1 # <<>>
    /\ \A c \in {row.aji_count, row.visitors, row.water_temp,
                 row.aji_per_person, row.aji_pp_same_week_last_year,
                 row.aji_pp_month_avg, row.aji_pp_dayofweek_avg,
                 row.temp_acceleration, row.temp_optimal,
                 row.temp_optimal_lag1, row.aji_pp_change,
                 row.aji_pp_pct_change, row.visitors_change,
                 row.visitors_pct_change} : IsFinite(c)
    /\ \A days \in GradientDays : IsFinite(row.temp_gradient[days])
    /\ \A w \in Windows :
          /\ IsFinite(row.aji_pp_ma[w]) /\ IsFinite(row.aji_pp_std[w])
          /\ IsFinite(row.aji_pp_max[w]) /\ IsFinite(row.aji_pp_min[w])
          /\ IsFinite(row.aji_ma[w]) /\ IsFinite(row.aji_std[w])
          /\ IsFinite(row.visitors_ma[w]) /\ IsFinite(row.visitors_std[w])
          /\ IsFinite(row.temp_ma[w]) /\ IsFinite(row.temp_std[w])

\* A row dropna() keeps: no cell of the row is missing.  The lunar and
\* cyclical columns are never missing, and with raw values that are not
\* negative an interaction or ratio column is missing only where a lag or
\* rolling column of the same row is.
IsCleanRow(row) ==
    /\ row.weather # <<>>
    /\ row.weather_lag1 # <<>>
    /\ \A c \in {row.aji_count, row.visitors, row.water_temp,
                 row.aji_per_person, row.aji_pp_same_week_last_year,
                 row.aji_pp_month_avg, row.aji_pp_dayofweek_avg,
                 row.temp_acceleration, row.temp_optimal,
                 row.temp_optimal_lag1, row.aji_pp_change,
                 row.aji_pp_pct_change, row.visitors_change,
                 row.visitors_pct_change} : IsFinite(c)
    /\ \A lag \in Lags :
          /\ IsFinite(row.aji_pp_lag[lag])
          /\ IsFinite(row.aji_lag[lag])
          /\ IsFinite(row.visitors_lag[lag])
          /\ IsFinite(row.temp_lag[lag])
    /\ \A days \in GradientDays : IsFinite(row.temp_gradient[days])
    /\ \A w \in Windows :
          /\ IsFinite(row.aji_pp_ma[w]) /\ IsFinite(row.aji_pp_std[w])
          /\ IsFinite(row.aji_pp_max[w]) /\ IsFinite(row.aji_pp_min[w])
          /\ IsFinite(row.aji_ma[w]) /\ IsFinite(row.aji_std[w])
          /\ IsFinite(row.visitors_ma[w]) /\ IsFinite(row.visitors_std[w])
          /\ IsFinite(row.temp_ma[w]) /\ IsFinite(row.temp_std[w])

\* df.replace([np.inf, -np.inf], np.nan).dropna()
DropNa(df) == SelectSeq(df, IsCleanRow)

\* The columns of a feature row that _assess_risk reads
RiskInputs(row) ==
    [aji_pp_lag1 |-> row.aji_pp_lag[1], aji_std7 |-> row.aji_std[7],
     month |-> Num(row.month)]

\* Mutant: equality with the threshold does not count as go
ShouldGoStrict(conservative_prediction, threshold) ==
    Gt(conservative_prediction, threshold)

\* should_go = conservative_prediction >= self.threshold
ShouldGo(conservative_prediction, threshold) ==
    Ge(conservative_prediction, threshold)

\* predict_tomorrow from line 71 on: df is create_features(historical_data)
\* and raw_prediction is what self.model.predict returns for the selected
\* columns of the last clean row.  self.weather_columns are the weather
\* indicator columns among self.selected_features.  Next to the keys of the
\* returned dict the record notes what the call did: the exception raised,
\* whether self.model.predict was called, the dates of the rows of df_clean,
\* the date of the row the prediction was made from, and the target_date
\* and the date of now() the call was made with.
PredictTomorrow(self, raw_prediction, df, target_date, today) ==
    LET prediction_date ==
            IF target_date = None THEN today + 1 ELSE target_date[1] + 1
        df_clean == DropNa(df)
        clean_dates == {df_clean[i].date : i \in 1..Len(df_clean)}
    IN  IF Len(df_clean) = 0
        THEN [raised |-> "ValueError", model_invoked |-> FALSE,
              clean_dates |-> clean_dates, basis_date |-> None,
              target_date |-> target_date, today |-> today]
        ELSE LET X_full == df_clean[Len(df_clean)]
             IN  IF ~(self.weather_columns \subseteq
                          DOMAIN X_full.weather_lag1_dummies)
                 THEN [raised |-> "KeyError", model_invoked |-> FALSE,
                       clean_dates |-> clean_dates,
                       basis_date |-> Some(X_full.date),
                       target_date |-> target_date, today |-> today]
                 ELSE LET conservative_prediction ==
                              Mul(raw_prediction, self.bias_factor)
                          assessed == AssessRisk(RiskInputs(X_full))
                      IN  [raised |-> "", model_invoked |-> TRUE,
                           clean_dates |-> clean_dates,
                           basis_date |-> Some(X_full.date),
                           target_date |-> target_date, today |-> today,
                           prediction_date |-> prediction_date,
                           raw_prediction |-> raw_prediction,
                           conservative_prediction |-> conservative_prediction,
                           should_go |-> ShouldGo(conservative_prediction,
                                                  self.threshold),
                           confidence_level |->
                               GetConfidenceDisplay(assessed.risk_level),
                           risk_reasons |-> assessed.risk_reasons,
                           threshold |-> self.threshold,
                           bias_factor |-> self.bias_factor]

\* Mutant: the prediction is dated on the reference date itself
PredictTomorrowSameDay(self, raw_prediction, df, target_date, today) ==
    LET prediction_date ==
            IF target_date = None THEN today ELSE target_date[1]
        df_clean == DropNa(df)
        clean_dates == {df_clean[i].date : i \in 1..Len(df_clean)}
    IN  IF Len(df_clean) = 0
        THEN [raised |-> "ValueError", model_invoked |-> FALSE,
              clean_dates |-> clean_dates, basis_date |-> None,
              target_date |-> target_date, today |-> today]
        ELSE LET X_full == df_clean[Len(df_clean)]
             IN  IF ~(self.weather_columns \subseteq
                          DOMAIN X_full.weather_lag1_dummies)
                 THEN [raised |-> "KeyError", model_invoked |-> FALSE,
                       clean_dates |-> clean_dates,
                       basis_date |-> Some(X_full.date),
                       target_date |-> target_date, today |-> today]
                 ELSE [raised |-> "", model_invoked |-> TRUE,
                       clean_dates |-> clean_dates,
                       basis_date |-> Some(X_full.date),
                       target_date |-> target_date, today |-> today,
                       prediction_date |-> prediction_date,
                       conservative_prediction |->
                           Mul(raw_prediction, self.bias_factor),
                       risk_level |-> AssessRiskLevel(RiskInputs(X_full))]

\* predict_tomorrow of predictor.py, from line 63 on, with the same notes
PredictTomorrowLevel(self, raw_prediction, df, target_date, today) ==
    LET prediction_date ==
            IF target_date = None THEN today + 1 ELSE target_date[1] + 1
        df_clean == DropNa(df)
        clean_dates == {df_clean[i].date : i \in 1..Len(df_clean)}
    IN  IF Len(df_clean) = 0
        THEN [raised |-> "ValueError", model_invoked |-> FALSE,
              clean_dates |-> clean_dates, basis_date |-> None,
              target_date |-> target_date, today |-> today]
        ELSE LET X_full == df_clean[Len(df_clean)]
             IN  IF ~(self.weather_columns \subseteq
                          DOMAIN X_full.weather_lag1_dummies)
                 THEN [raised |-> "KeyError", model_invoked |-> FALSE,
                       clean_dates |-> clean_dates,
                       basis_date |-> Some(X_full.date),
                       target_date |-> target_date, today |-> today]
                 ELSE [raised |-> "", model_invoked |-> TRUE,
                       clean_dates |-> clean_dates,
                       basis_date |-> Some(X_full.date),
                       target_date |-> target_date, today |-> today,
                       prediction_date |-> prediction_date,
                       conservative_prediction |->
                           Mul(raw_prediction, self.bias_factor),
                       risk_level |-> AssessRiskLevel(RiskInputs(X_full))]

\* ------------------------------------------------------------------------
\* The predictor as a function of its inputs: SpecPred draws the config the
\* predictor was constructed with and the historical frame, and calls
\* predict_tomorrow with a model output and a target date

BiasFactors == {Rat(7, 10), Num(1)}

Thresholds == {Num(2), Rat(7, 2)}

\* What the trained model may return for a row
RawPredictions == {Rat(-1, 2), Num(0), Num(2), Num(5), Rat(51, 10)}

Configs ==
    [bias_factor : BiasFactors, threshold : Thresholds,
     weather_columns : {{}, {"Sunny"}, {"Rain"}}]

\* n consecutive days from first on, all with the raw values of p
DailyFrame(first, n, p) == [i \in 1..n |-> Raw(first + i - 1, p)]

\* Histories around the longest lag, starting on a Sunday or a Monday
ShortHistories ==
    {DailyFrame(first, n, BaseProfile) : first \in {0, 1}, n \in {5, 28, 29}}
        \cup {DailyFrame(1, 28, OtherProfile)}

\* The last day of the risk season, 30 September
SeasonEnd == CumDays[10] - 117

\* A long history that ends on the last day of the risk season
SeasonEndFrames == {DailyFrame(SeasonEnd - LongLen + 1, LongLen, BaseProfile)}

\* A long history with a day of no catch and no visitors two days before
\* its last day
ZeroCatchFrames ==
    {[d \in 1..LongLen |->
         Raw(d, IF d = LongLen - 2 THEN OtherProfile ELSE BaseProfile)]}

\* Long frames, histories around the longest lag, and frames of one record
PredFrames ==
    LongFrames \cup ShortHistories \cup SeasonEndFrames \cup ZeroCatchFrames
        \cup {h \in ShortFrames : Len(h) = 1}

\* The date of the last record of a history in date order
LastDate(h) == h[Len(h)].date

InitPred ==
    /\ predictor \in {Some(c) : c \in Configs}
    /\ hist \in PredFrames
    /\ prediction = <<>>
    /\ risk = <<>>
    /\ levelPrediction = <<>>
    /\ response = <<>>
    /\ feat = <<>>
    /\ changed = 0
    /\ store = <<>>
    /\ source = [d \in Dates |-> AbsentDoc]
    /\ lastRun = NoRun
    /\ runs = NoRuns

\* predictor.predict_tomorrow(hist, target_date)
CallPredictTomorrow ==
    /\ prediction = <<>>
    /\ levelPrediction = <<>>
    /\ \E df \in {CreateFeatures(hist)} :
          \E raw_prediction \in RawPredictions,
             target_date \in {None, Some(LastDate(hist))},
             today \in {LastDate(hist), LastDate(hist) + 1} :
              prediction' = Some(PredictTomorrow(predictor[1], raw_prediction,
                                                 df, target_date, today))
    /\ UNCHANGED <<predictor, risk, levelPrediction, response>>
    /\ UNCHANGED varsMerge
    /\ UNCHANGED varsFeat

\* The same call on the FishingPredictor of predictor.py
CallPredictTomorrowLevel ==
    /\ prediction = <<>>
    /\ levelPrediction = <<>>
    /\ \E df \in {CreateFeatures(hist)} :
          \E raw_prediction \in RawPredictions,
             target_date \in {None, Some(LastDate(hist))},
             today \in {LastDate(hist), LastDate(hist) + 1} :
              levelPrediction' =
                  Some(PredictTomorrowLevel(predictor[1], raw_prediction, df,
                                            target_date, today))
    /\ UNCHANGED <<predictor, prediction, risk, response>>
    /\ UNCHANGED varsMerge
    /\ UNCHANGED varsFeat

NextPred ==
    \/ CallPredictTomorrow
    \/ CallPredictTomorrowLevel

SpecPred == InitPred /\ [][NextPred]_vars

\* ------------------------------------------------------------------------
\* Claims about the predictor, checked under SpecPred

\* C9: for every successful predict_tomorrow call, conservative_prediction
\* is raw_prediction times the configured bias_factor, and should_go is true
\* exactly when conservative_prediction >= the configured threshold
C9_ConservativeAndShouldGo ==
    (prediction # <<>> /\ prediction[1].raised = "") =>
        LET result == prediction[1]
            config == predictor[1]
        IN  /\ result.conservative_prediction =
                   Mul(result.raw_prediction, config.bias_factor)
            /\ result.should_go <=>
                   Ge(result.conservative_prediction, config.threshold)

\* C9 witness: a successful call whose conservative prediction, scaled down
\* by the bias factor, is exactly the threshold, and the answer is go
C9_Witness ==
    /\ prediction # <<>>
    /\ prediction[1].raised = ""
    /\ predictor[1].bias_factor # Num(1)
    /\ prediction[1].conservative_prediction # prediction[1].raw_prediction
    /\ prediction[1].conservative_prediction = predictor[1].threshold
    /\ prediction[1].should_go

\* C11: predict_tomorrow raises the data-insufficient error, without calling
\* the model and without returning a result, exactly when no feature row is
\* free of missing and infinite values; it does so for every series with
\* fewer than 29 records
C11_DataInsufficient ==
    prediction # <<>> =>
        LET r == prediction[1]
        IN  /\ (r.raised = "ValueError") <=> (r.clean_dates = {})
            /\ r.raised = "ValueError" =>
                  /\ ~r.model_invoked
                  /\ DOMAIN r \cap {"prediction_date", "raw_prediction",
                                    "conservative_prediction", "should_go"} = {}
            /\ Len(hist) < 29 => r.raised = "ValueError"

\* C11 witness: a call on 28 consecutive complete records raised the error
C11_Witness ==
    /\ prediction # <<>>
    /\ Len(hist) = 28
    /\ hist[1].aji_count = BaseProfile.aji_count
    /\ prediction[1].raised = "ValueError"
    /\ ~prediction[1].model_invoked

\* The reference date D of a call: target_date, or the date of now()
ReferenceDate(r) == IF r.target_date = None THEN r.today ELSE r.target_date[1]

\* C14: the feature row a successful predict_tomorrow call predicts from is
\* the row dated D, the reference date, one day before prediction_date
C14_BasisRowIsReferenceDate ==
    (prediction # <<>> /\ prediction[1].raised = "") =>
        /\ prediction[1].basis_date = Some(ReferenceDate(prediction[1]))
        /\ prediction[1].basis_date[1] + 1 = prediction[1].prediction_date

C17_SeasonOfPredictionDate ==
    (prediction # <<>> /\ prediction[1].raised = "") =>
        LET reasons == prediction[1].risk_reasons
            tagged == \E i \in 1..Len(reasons) : reasons[i] = "risk month"
        IN  tagged <=> MonthOf(prediction[1].prediction_date) \in 5..9

\* Row i of the history has full lookback: at least 28 predecessors and an
\* earlier record in its ISO week, its month and its weekday
FullLookback(h, i) ==
    /\ i > 28
    /\ \E j \in 1..(i - 1) : WeekOfYear(h[j].date) = WeekOfYear(h[i].date)
    /\ \E j \in 1..(i - 1) : MonthOf(h[j].date) = MonthOf(h[i].date)
    /\ \E j \in 1..(i - 1) : DayOfWeek(h[j].date) = DayOfWeek(h[i].date)

\* The history is one record per day on consecutive days, no raw field
\* missing
ConsecutiveComplete(h) ==
    /\ \A i \in 1..(Len(h) - 1) : h[i + 1].date = h[i].date + 1
    /\ \A i \in 1..Len(h) :
          /\ ~IsNaN(h[i].aji_count) /\ ~IsNaN(h[i].visitors)
          /\ ~IsNaN(h[i].water_temp) /\ h[i].weather # <<>>

\* C20: in a history of consecutive complete daily records, every row with
\* full lookback survives the cleaning step of predict_tomorrow, whatever
\* the catch and visitor counts are, days of zero catch or zero visitors
\* included
C20_OnlyIncompleteLookbackDropped ==
    (prediction # <<>> /\ ConsecutiveComplete(hist)) =>
        \A i \in 1..Len(hist) :
            FullLookback(hist, i) => hist[i].date \in prediction[1].clean_dates

\* ------------------------------------------------------------------------
\* Handlers around the predictor (lambda_function/main.py and
\* predictor/lambda_function.py)

\* The keys of the dict predict_tomorrow returned
ResultKeys(result) ==
    DOMAIN result \ {"raised", "model_invoked", "clean_dates", "basis_date",
                     "target_date", "today"}

\* round(x, 2), halves to the even neighbour
Round2(x) ==
    LET n == x[1] * 100
        q == n \div x[2]
        r == n - q * x[2]
        up == \/ 2 * r > x[2]
              \/ 2 * r = x[2] /\ q % 2 = 1
    IN  Rat(IF up THEN q + 1 ELSE q, 100)

\* Outcomes of loader.load_all(): all three loaded, or the first of the
\* series, the model and the config whose load raised
LoadOutcomes == {"ok", "data", "model", "config"}

\* An event carries no target_date, a well-formed one (Some(date)) or a
\* string that datetime.strptime rejects (None)
Events ==
    {[e \in {} |-> None]} \cup
    {[target_date |-> t] : t \in {None, Some(LongLen), Some(LongLen + 1)}}

\* The response of the except branch of a handler
ErrorResponse(handler, step, result) ==
    [handler |-> handler, statusCode |-> 500, failed |-> step,
     escaped |-> FALSE, result |-> result, body |-> [error |-> step]]

\* The judgement message of the prediction handler (lines 96-101)
JudgementMessage(result) ==
    IF result.should_go
    THEN IF result.confidence_level \in {"medium", "low"}
         THEN "go, with caution" ELSE "go"
    ELSE "do not go"

\* lambda_handler of lambda_function/main.py: df is create_features of the
\* stored series, self the stored config
PredictionLambdaHandler(event, load, self, raw_prediction, df, today) ==
    IF "target_date" \in DOMAIN event /\ event.target_date = None
    THEN ErrorResponse("prediction", "strptime", None)
    ELSE IF load # "ok" THEN ErrorResponse("prediction", load, None)
    ELSE LET target_date ==
                 IF "target_date" \in DOMAIN event THEN event.target_date
                 ELSE None
             result == PredictTomorrow(self, raw_prediction, df, target_date,
                                       today)
         IN  IF result.raised # ""
             THEN ErrorResponse("prediction", result.raised, Some(result))
             ELSE [handler |-> "prediction", statusCode |-> 200,
                   failed |-> "", escaped |-> FALSE, result |-> Some(result),
                   body |-> [k \in ResultKeys(result) \cup {"message"} |->
                                IF k = "message" THEN JudgementMessage(result)
                                ELSE result[k]]]

\* lambda_handler of predictor/lambda_function.py, which constructs the
\* FishingPredictor of inference.py; publish is the outcome of sns.publish
NotificationLambdaHandler(load, self, raw_prediction, df, today, sns_topic_arn, publish) ==
    IF load # "ok" THEN ErrorResponse("notification", load, None)
    ELSE LET result == PredictTomorrow(self, raw_prediction, df, None, today)
         IN  IF result.raised # ""
             THEN ErrorResponse("notification", result.raised, Some(result))
             ELSE IF "risk_level" \notin DOMAIN result
             THEN ErrorResponse("notification", "KeyError", Some(result))
             ELSE IF sns_topic_arn # None /\ publish # "ok"
             THEN ErrorResponse("notification", "publish", Some(result))
             ELSE [handler |-> "notification", statusCode |-> 200,
                   failed |-> "", escaped |-> FALSE, result |-> Some(result),
                   body |-> [date |-> result.prediction_date,
                             predicted_catch |->
                                 Round2(result.conservative_prediction),
                             risk_level |-> result["risk_level"]]]

\* ------------------------------------------------------------------------
\* The two handlers as functions of the stored series and config: SpecHand
\* draws what the store holds and invokes a handler once

HandlerFrames ==
    {DailyFrame(1, LongLen, BaseProfile), DailyFrame(1, 5, BaseProfile),
     DailyFrame(1, LongLen, OtherProfile)}

InitHand ==
    /\ predictor \in {Some(c) : c \in Configs}
    /\ hist \in HandlerFrames
    /\ response = <<>>
    /\ prediction = <<>>
    /\ levelPrediction = <<>>
    /\ risk = <<>>
    /\ feat = <<>>
    /\ changed = 0
    /\ store = <<>>
    /\ source = [d \in Dates |-> AbsentDoc]
    /\ lastRun = NoRun
    /\ runs = NoRuns

InvokePredictionHandler ==
    /\ response = <<>>
    /\ \E df \in {CreateFeatures(hist)} :
          \E event \in Events, load \in LoadOutcomes,
             raw_prediction \in RawPredictions,
             today \in {Len(hist), Len(hist) + 1} :
              response' = PredictionLambdaHandler(event, load, predictor[1],
                                                  raw_prediction, df, today)
    /\ UNCHANGED <<predictor, prediction, risk, levelPrediction>>
    /\ UNCHANGED varsMerge
    /\ UNCHANGED varsFeat

InvokeNotificationHandler ==
    /\ response = <<>>
    /\ \E df \in {CreateFeatures(hist)} :
          \E load \in LoadOutcomes, raw_prediction \in RawPredictions,
             today \in {Len(hist), Len(hist) + 1},
             sns_topic_arn \in {None, Some("arn")},
             publish \in {"ok", "error"} :
              response' = NotificationLambdaHandler(load, predictor[1],
                              raw_prediction, df, today, sns_topic_arn, publish)
    /\ UNCHANGED <<predictor, prediction, risk, levelPrediction>>
    /\ UNCHANGED varsMerge
    /\ UNCHANGED varsFeat

NextHand ==
    \/ InvokePredictionHandler
    \/ InvokeNotificationHandler

SpecHand == InitHand /\ [][NextHand]_vars

\* ------------------------------------------------------------------------
\* Claims about the handlers

\* C12: no exception escapes a handler, every failure of a step gives
\* statusCode 500 with an error message, and statusCode 200 is returned only
\* when no step of the invocation failed; for the data update handler a
\* step that fails is the read of the stored series
C12_FailuresGive500 ==
    /\ response # <<>> =>
          /\ ~response.escaped
          /\ response.statusCode \in {200, 500}
          /\ response.statusCode = 200 <=> response.failed = ""
          /\ response.statusCode = 500 => "error" \in DOMAIN response.body
    /\ lastRun.handler = "merge" =>
          /\ lastRun.statusCode \in {200, 500}
          /\ lastRun.statusCode = 200 => lastRun.read # "error"

\* C13: whenever the underlying prediction succeeds, the notification
\* handler returns statusCode 200 with the date, the catch rounded to two
\* decimals and a risk level in 0..3
C13_NotificationPayload ==
    (/\ response # <<>>
     /\ response.handler = "notification"
     /\ response.result # None
     /\ response.result[1].raised = "") =>
        /\ response.statusCode = 200
        /\ response.body.date = response.result[1].prediction_date
        /\ response.body.predicted_catch =
               Round2(response.result[1].conservative_prediction)
        /\ response.body.risk_level \in 0..3


\* ------------------------------------------------------------------------
\* The two FishingPredictor classes on the same inputs: SpecBoth constructs
\* both with one config and calls predict_tomorrow of both with one
\* history, one model output and one target date

\* The last row that survives the cleaning step, or no row
BasisRow(df) ==
    LET df_clean == DropNa(df)
    IN  IF Len(df_clean) = 0 THEN None ELSE Some(df_clean[Len(df_clean)])

\* predict_tomorrow of inference.py and of predictor.py, and inference.py's
\* _assess_risk on the basis row
CallBothPredictors ==
    /\ prediction = <<>>
    /\ levelPrediction = <<>>
    /\ \E df \in {CreateFeatures(hist)} :
          \E raw_prediction \in RawPredictions,
             target_date \in {None, Some(LastDate(hist))},
             today \in {LastDate(hist), LastDate(hist) + 1} :
              /\ prediction' =
                     Some(PredictTomorrow(predictor[1], raw_prediction, df,
                                          target_date, today))
              /\ levelPrediction' =
                     Some(PredictTomorrowLevel(predictor[1], raw_prediction,
                                               df, target_date, today))
              /\ risk' = IF BasisRow(df) = None THEN <<>>
                         ELSE Some(AssessRisk(RiskInputs(BasisRow(df)[1])))
    /\ UNCHANGED <<predictor, response>>
    /\ UNCHANGED varsMerge
    /\ UNCHANGED varsFeat

NextBoth == CallBothPredictors

SpecBoth == InitPred /\ [][NextBoth]_vars

\* Both calls gave the same outcome, and on success the same date, the
\* same conservative prediction and the risk level of inference.py's
\* assessor
SameOutcome(a, b) ==
    /\ a.raised = b.raised
    /\ a.raised = "" =>
          /\ a.prediction_date = b.prediction_date
          /\ a.conservative_prediction = b.conservative_prediction
          /\ b.risk_level = risk[1].risk_level

\* C21: for every history, model output, config and target date the two
\* predict_tomorrow implementations either both fail with the
\* data-insufficient error or both succeed with the same prediction_date
\* and conservative_prediction, and the risk_level of predictor.py is the
\* level inference.py's assessor computes for the basis row
C21_TwoCallSitesOneContract ==
    (prediction # <<>> /\ levelPrediction # <<>>) =>
        /\ SameOutcome(prediction[1], levelPrediction[1])
        /\ prediction[1].raised \in {"ValueError", ""}


\* ------------------------------------------------------------------------
\* Two merge handler invocations that overlap: SpecOverlap runs
\* lambda_handler of data_updater/main.py twice, each in three steps (the
\* read of the stored series, the fetch loop, the put and the return), in
\* any interleaving

\* Sources where each date's documents parse or are absent
OverlapSources ==
    [Dates -> {doc \in SourceDocs : doc.kind \in {"Absent", "Ok"}}]

\* The stored series before the two invocations: no object, or what a merge
\* for the first date left
InitialStores(src) ==
    {<<>>, SaveFishingData(<<>>, UpdateFishingData(src, <<>>, 1).df_updated,
                           UpdateFishingData(src, <<>>, 1).rows_added)}

InitOverlap ==
    /\ source \in OverlapSources
    /\ store \in InitialStores(source)
    /\ lastRun = NoRun
    /\ runs = NoRuns
    /\ hist = <<>>
    /\ feat = <<>>
    /\ changed = 0
    /\ predictor = <<>>
    /\ prediction = <<>>
    /\ risk = <<>>
    /\ levelPrediction = <<>>
    /\ response = <<>>

\* Invocation i resolves its target date and reads the stored series
\* (lambda_handler lines 267-272, update_fishing_data line 164)
ReadExisting(i, target_date, read) ==
    /\ runs[i].pc = "start"
    /\ read \in ReadOutcomes(store)
    /\ runs' = [runs EXCEPT ![i] =
                   [NotStarted EXCEPT
                       !.pc = "read", !.target_date = target_date,
                       !.read = read,
                       !.df_existing = LoadExistingFishingData(store, read)]]
    /\ UNCHANGED <<store, source, lastRun>>
    /\ UNCHANGED varsFeat
    /\ UNCHANGED varsPred

\* Invocation i compares the target with the last date it read, runs the
\* fetch loop and builds df_updated (update_fishing_data lines 172-212)
Fetch(i) ==
    /\ runs[i].pc = "read"
    /\ LET u == UpdateFishingData(source, runs[i].df_existing,
                                  runs[i].target_date)
       IN  runs' = [runs EXCEPT ![i].pc = "fetched",
                                ![i].df_updated = u.df_updated,
                                ![i].rows_added = u.rows_added,
                                ![i].attempted = u.attempted]
    /\ UNCHANGED <<store, source, lastRun>>
    /\ UNCHANGED varsFeat
    /\ UNCHANGED varsPred

\* Invocation i puts its series when it added rows, and returns
\* (lambda_handler lines 283-304)
PutAndReturn(i) ==
    /\ runs[i].pc = "fetched"
    /\ store' = SaveFishingData(store, runs[i].df_updated, runs[i].rows_added)
    /\ runs' = [runs EXCEPT ![i].pc = "done",
                            ![i].persisted = (runs[i].rows_added > 0)]
    /\ UNCHANGED <<source, lastRun>>
    /\ UNCHANGED varsFeat
    /\ UNCHANGED varsPred

NextOverlap ==
    \/ \E i \in Invocations, d \in Dates, read \in {"ok", "NoSuchKey", "error"} :
          ReadExisting(i, d, read)
    \/ \E i \in Invocations : Fetch(i)
    \/ \E i \in Invocations : PutAndReturn(i)

SpecOverlap == InitOverlap /\ [][NextOverlap]_vars

\* Both invocations returned
BothDone == \A i \in Invocations : runs[i].pc = "done"

\* No read of the stored series failed
NoReadError == \A i \in Invocations : runs[i].read # "error"

\* C22: for any interleaving of the read, fetch and put steps of two merge
\* invocations, with the same or different target dates, once both have
\* returned the persisted series contains every record either of them
\* persisted (stated for the runs in which every read of the stored series
\* succeeded)
C22_NoRecordLostUnderOverlap ==
    (BothDone /\ NoReadError) =>
        \A i \in Invocations :
            runs[i].persisted =>
                RecordsOf(runs[i].df_updated) \subseteq RecordsOf(store)

====
